---- MODULE Spec2Model ----
(***************************************************************************)
(* The chirpy HTTP server: its request handlers (package main), the auth   *)
(* package they call (MakeJWT, ValidateJWT, GetBearerToken, HashPassword,  *)
(* CheckPasswordHash, MakeRefreshToken) and the sqlc store behind          *)
(* cfg.queries.  One action per handler; a handler runs to completion      *)
(* before the next one starts.  Time is counted in hours.                  *)
(***************************************************************************)
EXTENDS Integers, Sequences, FiniteSets, TLC

\* ------------------------------------------------------------------ bounds
MaxUsers == 2
MaxTokens == 2
MaxChirps == 1
MaxTicks == 1
MaxHeld == 1
MaxHits == 1
MaxTTL == 2
MaxFlights == 2

\* --------------------------------------------------------- program constants
Hour == 1
RefreshTTL == Hour * 24 * 60
MaxBodyLen == 140
NoUser == 0

Emails == {"a@x", "b@x"}
Passwords == {"pw1", "pw2"}
SignupPasswords == {"pw1"}
Secrets == {"secrettest", "wrongsecret"}
Platforms == {"dev", "prod", ""}
ClockSteps == {Hour, RefreshTTL, RefreshTTL + Hour}

\* ------------------------------------------------------------------ values
EmptyString == [kind |-> "empty"]
Garbage == [kind |-> "garbage"]
Opaque(n) == [kind |-> "opaque", val |-> n]

NullTimeNone == [Time |-> 0, Valid |-> FALSE]
NullTime(t) == [Time |-> t, Valid |-> TRUE]

Before(a, b) == a < b

\* --------------------------------------------------------- package auth
HashPassword(password) == [alg |-> "bcrypt", digest |-> <<"H", password>>]

CheckPasswordHash(hash, password) == hash.digest = <<"H", password>>

MAC(key, sub, iat, exp, iss) == <<"HS256", key, sub, iat, exp, iss>>

MakeJWT(userID, tokenSecret, expiresIn, t) ==
    [kind |-> "jwt", sub |-> userID, iat |-> t, exp |-> t + expiresIn,
     iss |-> "chirpy",
     mac |-> MAC(tokenSecret, userID, t, t + expiresIn, "chirpy")]

ValidateJWT_anySubject(tok, tokenSecret, t) ==
    IF tok.kind # "jwt" THEN [err |-> "Malformed", sub |-> NoUser]
    ELSE IF tok.mac # MAC(tokenSecret, tok.sub, tok.iat, tok.exp, tok.iss)
         THEN [err |-> "SignatureMismatch", sub |-> NoUser]
    ELSE IF t > tok.exp THEN [err |-> "Expired", sub |-> NoUser]
    ELSE [err |-> "none", sub |-> NoUser]
ValidateJWT_noExpiry(tok, tokenSecret, t) ==
    IF tok.kind # "jwt" THEN [err |-> "Malformed", sub |-> NoUser]
    ELSE IF tok.mac # MAC(tokenSecret, tok.sub, tok.iat, tok.exp, tok.iss)
         THEN [err |-> "SignatureMismatch", sub |-> NoUser]
    ELSE [err |-> "none", sub |-> tok.sub]
\* precedence: malformed, then signature, then expiry
ValidateJWT(tok, tokenSecret, t) ==
    IF tok.kind # "jwt" THEN [err |-> "Malformed", sub |-> NoUser]
    ELSE IF tok.mac # MAC(tokenSecret, tok.sub, tok.iat, tok.exp, tok.iss)
         THEN [err |-> "SignatureMismatch", sub |-> NoUser]
    ELSE IF t > tok.exp THEN [err |-> "Expired", sub |-> NoUser]
    ELSE [err |-> "none", sub |-> tok.sub]

\* a token whose subject was rewritten after signing
Tamper(tok, s) == [tok EXCEPT !.sub = s]

MakeRefreshToken(n) == Opaque(n)

HeaderNone == [present |-> FALSE, scheme |-> "", sep |-> FALSE, cred |-> EmptyString]
Bearer(c) == [present |-> TRUE, scheme |-> "Bearer", sep |-> TRUE, cred |-> c]
IllFormedHeaders ==
    { HeaderNone,
      [present |-> TRUE, scheme |-> "Basic", sep |-> TRUE, cred |-> Garbage],
      [present |-> TRUE, scheme |-> "Bearer", sep |-> FALSE, cred |-> Garbage],
      Bearer(EmptyString) }

GetBearerToken_anyScheme(h) ==
    IF h.present /\ h.cred # EmptyString
    THEN [err |-> "none", token |-> h.cred]
    ELSE [err |-> "MissingCredential", token |-> EmptyString]
GetBearerToken(h) ==
    IF h.present /\ h.scheme = "Bearer" /\ h.sep /\ h.cred # EmptyString
    THEN [err |-> "none", token |-> h.cred]
    ELSE [err |-> "MissingCredential", token |-> EmptyString]

\* ------------------------------------------------------------------ state
VARIABLES secret, platform, fileserverHits,
          users, nextUser, chirps, nextChirp, refreshTokens, nextToken,
          now, ticks, wallet, req, resp, jwtCase,
          issuedTo, revoked, flights

cfgVars == <<secret, platform>>
storeVars == <<users, nextUser, chirps, nextChirp, refreshTokens, nextToken>>
vars == <<secret, platform, fileserverHits, users, nextUser, chirps, nextChirp,
          refreshTokens, nextToken, now, ticks, wallet, req, resp, jwtCase,
          issuedTo, revoked, flights>>
\* history: the user each minted refresh token was issued to at login, and the
\* refresh tokens for which a revoke request has answered 204
histVars == <<issuedTo, revoked>>

\* ------------------------------------------------------- requests, responses
NoBody == [kind |-> "none"]
Response(status, body) == [status |-> status, body |-> body]
NoRequest ==
    [op |-> "none", header |-> HeaderNone, bodyOk |-> TRUE, email |-> "",
     password |-> "", body |-> <<>>, chirpID |-> 0, fails |-> {},
     userID |-> NoUser]
Request(op, header, bodyOk, email, password, body, chirpID, fails) ==
    [op |-> op, header |-> header, bodyOk |-> bodyOk, email |-> email,
     password |-> password, body |-> body, chirpID |-> chirpID, fails |-> fails,
     userID |-> NoUser]

UserBody(id, email, token, refreshToken) ==
    [kind |-> "user", id |-> id, email |-> email, token |-> token,
     refreshToken |-> refreshToken]
TokenBody(token) == [kind |-> "token", token |-> token]

NoCase ==
    [stage |-> "none", sub |-> NoUser, key |-> "", ttl |-> 0, madeAt |-> 0,
     token |-> EmptyString, vkey |-> "", result |-> [err |-> "none", sub |-> NoUser]]

\* ------------------------------------------------------------------ store
UsersByEmail(email) == {u \in DOMAIN users : users[u].email = email}

Put(f, k, v) == [x \in DOMAIN f \cup {k} |-> IF x = k THEN v ELSE f[x]]

Drop(f, k) == [x \in DOMAIN f \ {k} |-> f[x]]

RevokeToken_toggles(store, tok, t) ==
    IF tok \notin DOMAIN store THEN store
    ELSE IF store[tok].revokedAt.Valid
         THEN [store EXCEPT ![tok].revokedAt = NullTimeNone]
    ELSE [store EXCEPT ![tok].revokedAt = NullTime(t)]
\* UPDATE refresh_tokens SET revoked_at = NOW() WHERE token = $1
RevokeToken(store, tok, t) ==
    IF tok \in DOMAIN store /\ ~store[tok].revokedAt.Valid
    THEN [store EXCEPT ![tok].revokedAt = NullTime(t)]
    ELSE store

\* ------------------------------------------------------------------ clients
\* the access tokens a client still holds: a client that holds MaxHeld tokens
\* drops them for the new one
Keep(tok, keep) ==
    IF ~keep \/ tok = EmptyString THEN wallet
    ELSE IF Cardinality(wallet \cup {tok}) <= MaxHeld THEN wallet \cup {tok}
    ELSE {tok}

\* what a client can put after "Bearer ": a token it was given, a token it
\* signed itself with a key of its own, a token it altered, any other string
AccessCreds ==
    wallet \cup {Garbage}
    \cup {MakeJWT(u, k, Hour, now) : u \in 1..MaxUsers, k \in Secrets \ {secret}}
    \cup {Tamper(tok, u) : tok \in wallet, u \in 1..MaxUsers}
AccessHeaders == IllFormedHeaders \cup {Bearer(c) : c \in AccessCreds}

RefreshCreds == {Opaque(n) : n \in 1..(nextToken - 1)} \cup {Garbage} \cup wallet
RefreshHeaders == IllFormedHeaders \cup {Bearer(c) : c \in RefreshCreds}

Idle == req.op = "none"

\* a JSON body that does not decode leaves the parameters at their zero values
CredentialBodies(passwords) ==
    {[ok |-> FALSE, email |-> "", password |-> ""]}
    \cup {[ok |-> TRUE, email |-> e, password |-> p] : e \in Emails, p \in passwords}

\* the calls of a handler that fail in one request: a handler returns at its
\* first failed call
OneOf(calls) == {{}} \cup {{c} : c \in calls}

\* ------------------------------------------------------------------ init
Init ==
    /\ secret = "secrettest"
    /\ platform = "dev"
    /\ fileserverHits = 0
    /\ users = <<>>
    /\ nextUser = 1
    /\ chirps = <<>>
    /\ nextChirp = 1
    /\ refreshTokens = <<>>
    /\ nextToken = 1
    /\ now = 0
    /\ ticks = 0
    /\ wallet = {}
    /\ req = NoRequest
    /\ resp = Response(0, NoBody)
    /\ jwtCase = NoCase
    /\ issuedTo = <<>>
    /\ revoked = {}
    /\ flights = <<>>

\* the clock moves between requests
Tick ==
    /\ Idle
    /\ jwtCase.stage = "none"
    /\ ticks < MaxTicks
    /\ \E d \in ClockSteps : now' = now + d
    /\ ticks' = ticks + 1
    /\ UNCHANGED <<cfgVars, flights, fileserverHits, storeVars, wallet, req, resp, jwtCase, histVars>>

\* the response is written and the server waits for the next request
ServeDone ==
    /\ ~Idle
    /\ req' = NoRequest
    /\ resp' = Response(0, NoBody)
    /\ UNCHANGED <<cfgVars, flights, fileserverHits, storeVars, now, ticks, wallet, jwtCase, histVars>>

\* /app/ : the file server behind the hit counter
middlewareMetricsInc ==
    /\ Idle
    /\ fileserverHits < MaxHits
    /\ fileserverHits' = fileserverHits + 1
    /\ req' = [NoRequest EXCEPT !.op = "app"]
    /\ resp' = Response(200, NoBody)
    /\ UNCHANGED <<cfgVars, flights, storeVars, now, ticks, wallet, jwtCase, histVars>>

\* if apiCfg.platform != "dev"
resetForbidden_never(p) == FALSE
resetForbidden(p) == p # "dev"

\* POST /admin/reset
resetHandler ==
    \E fails \in OneOf({"DeleteUsers"}) :
      /\ Idle
      /\ resetForbidden(platform) => fails = {}
      /\ req' = [NoRequest EXCEPT !.op = "reset", !.fails = fails]
      /\ IF resetForbidden(platform)
         THEN /\ resp' = Response(403, NoBody)
              /\ UNCHANGED <<fileserverHits, users, chirps, refreshTokens>>
         ELSE /\ fileserverHits' = 0
              /\ IF "DeleteUsers" \in fails
                 THEN /\ resp' = Response(500, NoBody)
                      /\ UNCHANGED <<users, chirps, refreshTokens>>
                 ELSE /\ users' = <<>>
                      /\ chirps' = <<>>
                      /\ refreshTokens' = <<>>
                      /\ resp' = Response(200, [kind |-> "text"])
      /\ UNCHANGED <<cfgVars, flights, nextUser, nextChirp, nextToken, now, ticks, wallet, jwtCase, histVars>>

\* POST /api/users
createUserHandler ==
    \E params \in CredentialBodies(SignupPasswords), fails \in OneOf({"CreateUser"}) :
      LET bodyOk == params.ok
          email == params.email
          password == params.password
      IN
      /\ Idle
      /\ nextUser <= MaxUsers
      /\ ~bodyOk => fails = {}
      /\ req' = Request("createUser", HeaderNone, bodyOk, email, password, <<>>, 0, fails)
      /\ IF ~bodyOk \/ "CreateUser" \in fails \/ UsersByEmail(email) # {}
         THEN /\ resp' = Response(500, NoBody)
              /\ UNCHANGED <<users, nextUser>>
         ELSE /\ users' = Put(users, nextUser,
                              [email |-> email, hashedPassword |-> HashPassword(password)])
              /\ nextUser' = nextUser + 1
              /\ resp' = Response(201, UserBody(nextUser, email, EmptyString, EmptyString))
      /\ UNCHANGED <<cfgVars, flights, fileserverHits, chirps, nextChirp, refreshTokens,
                     nextToken, now, ticks, wallet, jwtCase, histVars>>

\* ---------------------------------------------------------------- login
loginFailureResponse_byCause(cause) ==
    IF cause = "GetUserByEmail" THEN Response(404, NoBody) ELSE Response(401, NoBody)
loginFailureResponse(cause) == Response(401, NoBody)

loginJWT(userID, t) == MakeJWT(userID, secret, Hour, t)

RefreshTokenParams_oneDay(tok, userID, t) ==
    [token |-> tok,
     row |-> [userID |-> userID, expiresAt |-> NullTime(t + Hour * 24),
              revokedAt |-> NullTimeNone]]
RefreshTokenParams(tok, userID, t) ==
    [token |-> tok,
     row |-> [userID |-> userID, expiresAt |-> NullTime(t + Hour * 24 * 60),
              revokedAt |-> NullTimeNone]]

\* POST /api/login
loginHandler ==
    \E params \in CredentialBodies(Passwords),
       fails \in OneOf({"GetUserByEmail"}) \cup SUBSET {"MakeJWT", "CreateRefreshToken"},
       keep \in BOOLEAN :
      LET bodyOk == params.ok
          email == params.email
          password == params.password
          found == bodyOk /\ "GetUserByEmail" \notin fails /\ UsersByEmail(email) # {}
          id == IF found THEN CHOOSE u \in UsersByEmail(email) : TRUE ELSE NoUser
          pwOk == found /\ CheckPasswordHash(users[id].hashedPassword, password)
          reached == (IF bodyOk THEN {"GetUserByEmail"} ELSE {})
                     \cup (IF pwOk THEN {"MakeJWT", "CreateRefreshToken"} ELSE {})
          token == IF "MakeJWT" \in fails THEN EmptyString ELSE loginJWT(id, now)
          minted == "MakeRefreshToken" \notin fails
          refreshToken == IF minted THEN MakeRefreshToken(nextToken) ELSE EmptyString
          refTokenParams == RefreshTokenParams(refreshToken, id, now)
          stored == "CreateRefreshToken" \notin fails
                    /\ refreshToken \notin DOMAIN refreshTokens
          dbRefToken == IF stored THEN refreshToken ELSE EmptyString
          failed == "MakeJWT" \in fails \/ ~minted \/ ~stored
      IN
      /\ Idle
      /\ fails \subseteq reached
      /\ ~pwOk => ~keep
      /\ (pwOk /\ minted) => nextToken <= MaxTokens
      /\ req' = Request("login", HeaderNone, bodyOk, email, password, <<>>, 0, fails)
      /\ IF ~bodyOk
         THEN /\ resp' = Response(500, NoBody)
              /\ UNCHANGED <<refreshTokens, nextToken, wallet, issuedTo>>
         ELSE IF ~found
         THEN /\ resp' = loginFailureResponse("GetUserByEmail")
              /\ UNCHANGED <<refreshTokens, nextToken, wallet, issuedTo>>
         ELSE IF ~pwOk
         THEN /\ resp' = loginFailureResponse("CheckPasswordHash")
              /\ UNCHANGED <<refreshTokens, nextToken, wallet, issuedTo>>
         ELSE /\ nextToken' = IF minted THEN nextToken + 1 ELSE nextToken
              /\ issuedTo' = IF minted THEN Put(issuedTo, refreshToken, id)
                             ELSE issuedTo
              /\ refreshTokens' = IF stored
                                  THEN Put(refreshTokens, refTokenParams.token,
                                           refTokenParams.row)
                                  ELSE refreshTokens
              /\ resp' = Response(IF failed THEN 500 ELSE 200,
                                  UserBody(id, users[id].email, token, dbRefToken))
              /\ wallet' = Keep(token, keep)
      /\ UNCHANGED <<cfgVars, flights, fileserverHits, users, nextUser, chirps, nextChirp,
                     now, ticks, jwtCase, revoked>>

\* ---------------------------------------------------------------- refresh
refreshRejects_ignoresRevoked(row, t) ==
    ~row.expiresAt.Valid \/ Before(row.expiresAt.Time, t)
refreshRejects(row, t) ==
    row.revokedAt.Valid \/ ~row.expiresAt.Valid \/ Before(row.expiresAt.Time, t)

refreshJWT_firstUser(row, t) ==
    MakeJWT(CHOOSE u \in DOMAIN users : \A v \in DOMAIN users : u <= v, secret, Hour, t)
refreshJWT(row, t) == MakeJWT(row.userID, secret, Hour, t)

\* the store calls of refreshHandler: GetUserByToken, a SELECT, and no other
refreshWrites_rotates(store, tok, t) == RevokeToken(store, tok, t)
refreshWrites(store, tok, t) == store

\* POST /api/refresh
refreshHandler ==
    \E header \in RefreshHeaders, fails \in OneOf({"GetUserByToken", "MakeJWT"}),
       keep \in BOOLEAN :
      LET bt == GetBearerToken(header)
          found == bt.err = "none" /\ "GetUserByToken" \notin fails
                   /\ bt.token \in DOMAIN refreshTokens
          usable == found /\ ~refreshRejects(refreshTokens[bt.token], now)
          reached == (IF bt.err = "none" THEN {"GetUserByToken"} ELSE {})
                     \cup (IF usable THEN {"MakeJWT"} ELSE {})
          issued == usable /\ "MakeJWT" \notin fails
          token == IF issued THEN refreshJWT(refreshTokens[bt.token], now)
                   ELSE EmptyString
      IN
      /\ Idle
      /\ fails \subseteq reached
      /\ ~issued => ~keep
      /\ req' = Request("refresh", header, TRUE, "", "", <<>>, 0, fails)
      /\ resp' = IF bt.err # "none" \/ ~found \/ ~usable THEN Response(401, NoBody)
                 ELSE IF ~issued THEN Response(500, NoBody)
                 ELSE Response(200, TokenBody(token))
      /\ wallet' = Keep(token, keep)
      /\ refreshTokens' = refreshWrites(refreshTokens, bt.token, now)
      /\ UNCHANGED <<cfgVars, flights, fileserverHits, users, nextUser, chirps, nextChirp,
                     nextToken, now, ticks, jwtCase, histVars>>

\* POST /api/revoke
revokeHandler ==
    \E header \in RefreshHeaders, fails \in OneOf({"RevokeToken"}) :
      LET bt == GetBearerToken(header)
          done == bt.err = "none" /\ "RevokeToken" \notin fails
      IN
      /\ Idle
      /\ bt.err # "none" => fails = {}
      /\ req' = Request("revoke", header, TRUE, "", "", <<>>, 0, fails)
      /\ resp' = IF done THEN Response(204, NoBody) ELSE Response(401, NoBody)
      /\ refreshTokens' = IF done THEN RevokeToken(refreshTokens, bt.token, now)
                          ELSE refreshTokens
      /\ revoked' = IF done THEN revoked \cup ({bt.token} \cap DOMAIN issuedTo)
                    ELSE revoked
      /\ UNCHANGED <<cfgVars, flights, fileserverHits, users, nextUser, chirps, nextChirp,
                     nextToken, now, ticks, wallet, jwtCase, issuedTo>>

\* ------------------------------------------------------- protected handlers
\* GetBearerToken, then ValidateJWT with cfg.secret
Authorize_trustsTokenKey(header, t) ==
    LET bt == GetBearerToken(header) IN
    IF bt.err # "none" THEN [err |-> bt.err, sub |-> NoUser]
    ELSE IF bt.token.kind # "jwt" THEN ValidateJWT(bt.token, secret, t)
    ELSE ValidateJWT(bt.token, bt.token.mac[2], t)
Authorize_deniesRevoked(header, t) ==
    LET bt == GetBearerToken(header)
        v == ValidateJWT(bt.token, secret, t)
    IN
    IF bt.err # "none" THEN [err |-> bt.err, sub |-> NoUser]
    ELSE IF v.err = "none"
            /\ \E r \in DOMAIN refreshTokens :
                  refreshTokens[r].userID = v.sub /\ refreshTokens[r].revokedAt.Valid
         THEN [err |-> "Revoked", sub |-> NoUser]
    ELSE v
Authorize(header, t) ==
    LET bt == GetBearerToken(header) IN
    IF bt.err # "none" THEN [err |-> bt.err, sub |-> NoUser]
    ELSE ValidateJWT(bt.token, secret, t)

WordLen(w) ==
    CASE w = "hi" -> 2 [] w = "Fornax" -> 6 [] w = "kerfuffle" -> 9 [] OTHER -> 4

RECURSIVE BodyLen(_)
BodyLen(body) ==
    IF body = <<>> THEN 0
    ELSE WordLen(Head(body)) + (IF Len(body) > 1 THEN 1 ELSE 0) + BodyLen(Tail(body))

ToLower(w) == IF w = "Fornax" THEN "fornax" ELSE w

cleanChirp(body) ==
    [i \in DOMAIN body |->
        IF ToLower(body[i]) \in {"kerfuffle", "sharbert", "fornax"}
        THEN "****" ELSE body[i]]

LongBody == [i \in 1..15 |-> "kerfuffle"]
Bodies == {<<"hi", "Fornax">>, LongBody}

ChirpBody(id, body, userID) ==
    [kind |-> "chirp", id |-> id, body |-> body, userID |-> userID]
ErrorBody(msg) == [kind |-> "error", error |-> msg]

\* a "user_id" member the client may put into the JSON body: the parameters
\* struct has no such field, Decode drops it
BodyUserIDs == 0..MaxUsers

\* database.CreateChirpParams{Body: cleanedBody, UserID: validUserID}
chirpAuthor_fromBody(validUserID, bodyUserID) ==
    IF bodyUserID # NoUser THEN bodyUserID ELSE validUserID
chirpAuthor(validUserID, bodyUserID) == validUserID

\* POST /api/chirps
createChirpHandler ==
    \E bodyOk \in BOOLEAN, body \in Bodies \cup {<<>>}, header \in AccessHeaders,
       bodyUserID \in BodyUserIDs, fails \in OneOf({"CreateChirp"}) :
      LET auth == Authorize(header, now)
          valid == bodyOk /\ auth.err = "none" /\ BodyLen(body) <= MaxBodyLen
          author == chirpAuthor(auth.sub, bodyUserID)
          created == valid /\ "CreateChirp" \notin fails /\ author \in DOMAIN users
      IN
      /\ Idle
      /\ IF bodyOk THEN body # <<>> ELSE body = <<>>
      /\ ~valid => (fails = {} /\ bodyUserID = NoUser)
      /\ created => nextChirp <= MaxChirps
      /\ req' = [Request("createChirp", header, bodyOk, "", "", body, 0, fails)
                   EXCEPT !.userID = bodyUserID]
      /\ resp' = IF ~bodyOk THEN Response(500, NoBody)
                 ELSE IF auth.err # "none" THEN Response(401, NoBody)
                 ELSE IF BodyLen(body) > MaxBodyLen
                      THEN Response(400, ErrorBody("Chirp is too long"))
                 ELSE IF ~created THEN Response(500, NoBody)
                 ELSE Response(201, ChirpBody(nextChirp, cleanChirp(body), author))
      /\ chirps' = IF created
                   THEN Put(chirps, nextChirp,
                            [body |-> cleanChirp(body), userID |-> author])
                   ELSE chirps
      /\ nextChirp' = IF created THEN nextChirp + 1 ELSE nextChirp
      /\ UNCHANGED <<cfgVars, flights, fileserverHits, users, nextUser, refreshTokens,
                     nextToken, now, ticks, wallet, jwtCase, histVars>>

\* the {chirpID} path value: 0 stands for a string that is no UUID
PathValues == 0..(MaxChirps + 1)
uuidParse(pv) == [err |-> IF pv = 0 THEN "invalid UUID" ELSE "none", id |-> pv]

\* if userID != dbChirp.UserID
notAuthor_nobody(userID, dbChirp) == FALSE
notAuthor(userID, dbChirp) == userID # dbChirp.userID

\* DELETE /api/chirps/{chirpID}
delChirpHandler ==
    \E header \in AccessHeaders, pv \in PathValues,
       fails \in OneOf({"GetChirp", "DeleteChirp"}) :
      LET auth == Authorize(header, now)
          parsed == auth.err = "none" /\ uuidParse(pv).err = "none"
          found == parsed /\ "GetChirp" \notin fails /\ pv \in DOMAIN chirps
          owner == found /\ ~notAuthor(auth.sub, chirps[pv])
          reached == (IF parsed THEN {"GetChirp"} ELSE {})
                     \cup (IF owner THEN {"DeleteChirp"} ELSE {})
          deleted == owner /\ "DeleteChirp" \notin fails
      IN
      /\ Idle
      /\ fails \subseteq reached
      /\ req' = Request("delChirp", header, TRUE, "", "", <<>>, pv, fails)
      /\ resp' = IF auth.err # "none" THEN Response(401, NoBody)
                 ELSE IF ~parsed THEN Response(400, NoBody)
                 ELSE IF ~found THEN Response(404, NoBody)
                 ELSE IF ~owner THEN Response(403, NoBody)
                 ELSE IF ~deleted THEN Response(404, NoBody)
                 ELSE Response(204, NoBody)
      /\ chirps' = IF deleted THEN Drop(chirps, pv) ELSE chirps
      /\ UNCHANGED <<cfgVars, flights, fileserverHits, users, nextUser, nextChirp,
                     refreshTokens, nextToken, now, ticks, wallet, jwtCase, histVars>>

\* UPDATE users SET email = $2, hashed_password = $3 WHERE id = $1
UpdateEmailPass(store, id, email, hashedPassword) ==
    [store EXCEPT ![id] = [email |-> email, hashedPassword |-> hashedPassword]]

\* PUT /api/users
updateUserHandler ==
    \E header \in AccessHeaders, params \in CredentialBodies(Passwords),
       fails \in OneOf({"GetUserByID", "UpdateEmailPass", "GetUserByID2"}) :
      LET bodyOk == params.ok
          email == params.email
          password == params.password
          auth == Authorize(header, now)
          found == auth.err = "none" /\ "GetUserByID" \notin fails
                   /\ auth.sub \in DOMAIN users
          decoded == found /\ bodyOk
          updated == decoded /\ "UpdateEmailPass" \notin fails
                     /\ UsersByEmail(email) \subseteq {auth.sub}
          reached == (IF auth.err = "none" THEN {"GetUserByID"} ELSE {})
                     \cup (IF decoded THEN {"UpdateEmailPass"} ELSE {})
                     \cup (IF updated THEN {"GetUserByID2"} ELSE {})
      IN
      /\ Idle
      /\ fails \subseteq reached
      /\ req' = Request("updateUser", header, bodyOk, email, password, <<>>, 0, fails)
      /\ resp' = IF auth.err # "none" \/ ~found THEN Response(401, NoBody)
                 ELSE IF ~decoded \/ ~updated THEN Response(500, NoBody)
                 ELSE IF "GetUserByID2" \in fails THEN Response(401, NoBody)
                 ELSE Response(200, UserBody(auth.sub, email, EmptyString, EmptyString))
      /\ users' = IF updated
                  THEN UpdateEmailPass(users, auth.sub, email, HashPassword(password))
                  ELSE users
      /\ UNCHANGED <<cfgVars, flights, fileserverHits, nextUser, chirps, nextChirp,
                     refreshTokens, nextToken, now, ticks, wallet, jwtCase, histVars>>

\* ------------------------------------------------- package auth, its tests
\* auth_test.go: a token is made, time may pass, the token is validated
TestMakeJWT ==
    \E s \in 1..MaxUsers, k \in Secrets, ttl \in (0 - MaxTTL)..MaxTTL :
      /\ jwtCase.stage = "none"
      /\ jwtCase' = [NoCase EXCEPT !.stage = "made", !.sub = s, !.key = k,
                                   !.ttl = ttl * Hour, !.madeAt = now,
                                   !.token = MakeJWT(s, k, ttl * Hour, now)]
      /\ UNCHANGED <<cfgVars, flights, fileserverHits, storeVars, now, ticks, wallet, req,
                     resp, histVars>>

TestWait ==
    /\ jwtCase.stage # "validated"
    /\ now < jwtCase.madeAt + (MaxTTL + 1) * Hour
    /\ now' = now + Hour
    /\ UNCHANGED <<cfgVars, flights, fileserverHits, storeVars, ticks, wallet, req, resp,
                   jwtCase, histVars>>

TestValidateJWT ==
    \E k \in Secrets :
      /\ jwtCase.stage = "made"
      /\ jwtCase' = [jwtCase EXCEPT !.stage = "validated", !.vkey = k,
                                    !.result = ValidateJWT(jwtCase.token, k, now)]
      /\ UNCHANGED <<cfgVars, flights, fileserverHits, storeVars, now, ticks, wallet, req,
                     resp, histVars>>

NextAuth ==
    \/ TestMakeJWT
    \/ TestWait
    \/ TestValidateJWT

SpecAuth == Init /\ [][NextAuth]_vars

\* ------------------------------------------------------------ specifications
\* users and their tokens: sign-up, login, refresh, revoke, update, reset
Next ==
    \/ createUserHandler
    \/ loginHandler
    \/ refreshHandler
    \/ revokeHandler
    \/ updateUserHandler
    \/ resetHandler
    \/ Tick
    \/ ServeDone

Spec == Init /\ [][Next]_vars

\* chirps: the handlers behind an access token
NextChirps ==
    \/ createUserHandler
    \/ loginHandler
    \/ createChirpHandler
    \/ delChirpHandler
    \/ updateUserHandler
    \/ Tick
    \/ ServeDone

SpecChirps == Init /\ [][NextChirps]_vars

\* access tokens against revocation: login, revoke, and a protected handler
NextAccess ==
    \/ createUserHandler
    \/ loginHandler
    \/ revokeHandler
    \/ createChirpHandler
    \/ Tick
    \/ ServeDone

SpecAccess == Init /\ [][NextAccess]_vars

\* ------------------------------------------- refresh and revoke, step by step
\* net/http serves every request on a goroutine of its own: the requests in
\* flights run side by side, each at its own position (pc) in its handler
NoRow == [userID |-> NoUser, expiresAt |-> NullTimeNone, revokedAt |-> NullTimeNone]
Flight(op, header) ==
    LET bt == GetBearerToken(header) IN
    [op |-> op, header |-> header,
     pc |-> IF bt.err # "none" THEN "done"
            ELSE IF op = "refresh" THEN "lookup" ELSE "update",
     fails |-> {}, found |-> FALSE, row |-> NoRow,
     stored |-> NoRow, lookedAt |-> 0, after |-> FALSE,
     resp |-> IF bt.err # "none" THEN Response(401, NoBody) ELSE Response(0, NoBody)]

\* what the racing requests present: a refresh token that was handed out, or nothing
FlightHeaders == {HeaderNone} \cup {Bearer(Opaque(n)) : n \in 1..(nextToken - 1)}

\* the clock has moved on when a handler reads time.Now() after a store call
CheckDelays == {Hour, RefreshTTL}

\* refreshHandler up to GetBearerToken
refreshStart ==
    \E header \in FlightHeaders :
      /\ Idle
      /\ Len(flights) < MaxFlights
      /\ flights' = Append(flights, Flight("refresh", header))
      /\ UNCHANGED <<cfgVars, fileserverHits, storeVars, now, ticks, wallet, req,
                     resp, jwtCase, histVars>>

\* dbRefToken, err := cfg.queries.GetUserByToken(ctx, refToken)
dbRefToken_cached(i, tok) == [refreshTokens[tok] EXCEPT !.revokedAt = NullTimeNone]
dbRefToken(i, tok) == refreshTokens[tok]

\* refreshHandler: the store lookup
refreshLookup ==
    \E i \in DOMAIN flights, fails \in OneOf({"GetUserByToken"}) :
      LET f == flights[i]
          tok == GetBearerToken(f.header).token
          found == fails = {} /\ tok \in DOMAIN refreshTokens
      IN
      /\ Idle
      /\ f.op = "refresh" /\ f.pc = "lookup"
      /\ flights' = [flights EXCEPT ![i] =
            [f EXCEPT !.pc = IF found THEN "check" ELSE "done",
                      !.fails = fails,
                      !.found = found,
                      !.row = IF found THEN dbRefToken(i, tok) ELSE NoRow,
                      !.stored = IF tok \in DOMAIN refreshTokens
                                 THEN refreshTokens[tok] ELSE NoRow,
                      !.lookedAt = now,
                      !.after = tok \in revoked,
                      !.resp = IF found THEN f.resp ELSE Response(401, NoBody)]]
      /\ UNCHANGED <<cfgVars, fileserverHits, storeVars, now, ticks, wallet, req,
                     resp, jwtCase, histVars>>

\* refreshHandler: the check of the row against time.Now(), MakeJWT, the response
refreshCheck ==
    \E i \in DOMAIN flights, d \in CheckDelays, fails \in OneOf({"MakeJWT"}) :
      LET f == flights[i]
          t == now + d
          rejects == refreshRejects(f.row, t)
      IN
      /\ Idle
      /\ f.op = "refresh" /\ f.pc = "check"
      /\ rejects => fails = {}
      /\ now' = t
      /\ flights' = [flights EXCEPT ![i] =
            [f EXCEPT !.pc = "done",
                      !.fails = fails,
                      !.resp = IF rejects THEN Response(401, NoBody)
                               ELSE IF fails # {} THEN Response(500, NoBody)
                               ELSE Response(200, TokenBody(refreshJWT(f.row, t)))]]
      /\ UNCHANGED <<cfgVars, fileserverHits, storeVars, ticks, wallet, req, resp,
                     jwtCase, histVars>>

\* revokeHandler up to GetBearerToken
revokeStart ==
    \E header \in FlightHeaders :
      /\ Idle
      /\ Len(flights) < MaxFlights
      /\ flights' = Append(flights, Flight("revoke", header))
      /\ UNCHANGED <<cfgVars, fileserverHits, storeVars, now, ticks, wallet, req,
                     resp, jwtCase, histVars>>

\* revokeHandler: the store update and the response
revokeUpdate ==
    \E i \in DOMAIN flights, fails \in OneOf({"RevokeToken"}) :
      LET f == flights[i]
          tok == GetBearerToken(f.header).token
      IN
      /\ Idle
      /\ f.op = "revoke" /\ f.pc = "update"
      /\ refreshTokens' = IF fails = {} THEN RevokeToken(refreshTokens, tok, now)
                          ELSE refreshTokens
      /\ revoked' = IF fails = {} THEN revoked \cup ({tok} \cap DOMAIN issuedTo)
                    ELSE revoked
      /\ flights' = [flights EXCEPT ![i] =
            [f EXCEPT !.pc = "done",
                      !.fails = fails,
                      !.resp = IF fails = {} THEN Response(204, NoBody)
                               ELSE Response(401, NoBody)]]
      /\ UNCHANGED <<cfgVars, fileserverHits, users, nextUser, chirps, nextChirp,
                     nextToken, now, ticks, wallet, req, resp, jwtCase, issuedTo>>

NextConc ==
    \/ createUserHandler
    \/ loginHandler
    \/ ServeDone
    \/ refreshStart
    \/ refreshLookup
    \/ refreshCheck
    \/ revokeStart
    \/ revokeUpdate

SpecConc == Init /\ [][NextConc]_vars

\* the server as started from its environment: os.Getenv gives "" for a
\* variable that is not set, and main passes on what it reads
EnvSecrets == Secrets \cup {""}

InitEnv ==
    /\ secret \in EnvSecrets
    /\ platform \in Platforms
    /\ fileserverHits = 0
    /\ users = <<>>
    /\ nextUser = 1
    /\ chirps = <<>>
    /\ nextChirp = 1
    /\ refreshTokens = <<>>
    /\ nextToken = 1
    /\ now = 0
    /\ ticks = 0
    /\ wallet = {}
    /\ req = NoRequest
    /\ resp = Response(0, NoBody)
    /\ jwtCase = NoCase
    /\ issuedTo = <<>>
    /\ revoked = {}
    /\ flights = <<>>

NextEnv ==
    \/ middlewareMetricsInc
    \/ resetHandler
    \/ createUserHandler
    \/ loginHandler
    \/ createChirpHandler
    \/ ServeDone

SpecEnv == InitEnv /\ [][NextEnv]_vars

\* ------------------------------------------------------------------ claims
Presented == GetBearerToken(req.header)
ProtectedOps == {"createChirp", "delChirp", "updateUser"}
Unauthorized == Response(401, NoBody)
SixtyDays == 60 * 24 * Hour
Valid(sub) == [err |-> "none", sub |-> sub]
Failed(err) == [err |-> err, sub |-> NoUser]

\* C1: once a revoke request for a refresh token has answered 204, every later
\* refresh request presenting that token answers 401 with no access token
C1_RevokedNeverRefreshes ==
    (req.op = "refresh" /\ Presented.err = "none" /\ Presented.token \in revoked)
        => resp = Unauthorized
C1_Witness ==
    /\ req.op = "refresh" /\ Presented.err = "none" /\ Presented.token \in revoked
    /\ Presented.token \in DOMAIN refreshTokens
    /\ refreshTokens[Presented.token].expiresAt.Valid
    /\ refreshTokens[Presented.token].expiresAt.Time > now
    /\ resp = Unauthorized

\* C2: a refresh presenting a stored token issues an access token iff the
\* record is not revoked and has an expiresAt strictly later than now;
\* otherwise it answers 401 (also when expiresAt equals now)
C2_UsableIffStrictlyFuture ==
    (req.op = "refresh" /\ Presented.err = "none" /\ req.fails = {}
     /\ Presented.token \in DOMAIN refreshTokens)
        => LET row == refreshTokens[Presented.token]
               usable == ~row.revokedAt.Valid /\ row.expiresAt.Valid
                         /\ row.expiresAt.Time > now
           IN IF usable THEN resp.status = 200 /\ resp.body.kind = "token"
              ELSE resp = Unauthorized

\* C3: a login with an unknown email and a login with a known email and a
\* wrong password get the same response, 401 with an empty body, and neither
\* creates a refresh-token record
C3_LoginFailuresAlike ==
    [][(req'.op = "login" /\ req'.bodyOk /\ req'.fails = {}
        /\ \A u \in UsersByEmail(req'.email) :
              ~CheckPasswordHash(users[u].hashedPassword, req'.password))
       => (resp' = Unauthorized /\ refreshTokens' = refreshTokens
           /\ nextToken' = nextToken)]_vars
C3_Witness ==
    /\ req.op = "login" /\ req.bodyOk /\ req.fails = {}
    /\ UsersByEmail(req.email) # {}
    /\ \A u \in UsersByEmail(req.email) :
          ~CheckPasswordHash(users[u].hashedPassword, req.password)
    /\ refreshTokens # <<>>
    /\ resp = Unauthorized

\* C4: a protected handler answers every authorization failure with 401,
\* whatever else the request holds, and leaves users, chirps and refresh
\* tokens as they were
C4_AuthFailureAlways401 ==
    [][(req'.op \in ProtectedOps /\ Authorize(req'.header, now).err # "none")
       => (resp' = Unauthorized /\ users' = users /\ chirps' = chirps
           /\ refreshTokens' = refreshTokens)]_vars

\* C5: a token made for s with key k and a positive ttl validates under k to
\* exactly s as long as the ttl has not elapsed
C5_RoundTrip ==
    (jwtCase.stage = "validated" /\ jwtCase.vkey = jwtCase.key /\ jwtCase.ttl > 0
     /\ now < jwtCase.madeAt + jwtCase.ttl)
        => jwtCase.result = Valid(jwtCase.sub)
C5_Witness ==
    /\ jwtCase.stage = "validated" /\ jwtCase.vkey = jwtCase.key /\ jwtCase.ttl > 0
    /\ now > jwtCase.madeAt /\ now < jwtCase.madeAt + jwtCase.ttl
    /\ jwtCase.result = Valid(jwtCase.sub)

\* C6: a token made with a negative ttl is made without error and is already
\* expired: validating it under the same key fails with Expired and no user
C6_NegativeTTLExpired ==
    (jwtCase.stage = "validated" /\ jwtCase.vkey = jwtCase.key /\ jwtCase.ttl < 0)
        => (jwtCase.token.kind = "jwt" /\ jwtCase.result = Failed("Expired"))
C6_Witness ==
    /\ jwtCase.stage = "validated" /\ jwtCase.vkey = jwtCase.key /\ jwtCase.ttl < 0
    /\ now = jwtCase.madeAt
    /\ jwtCase.result = Failed("Expired")

\* C7: a token made with key k fails validation under any other key with
\* SignatureMismatch and no user, so no protected handler lets in a token
\* signed with a key other than the server's secret
SignedWith(tok, k) ==
    tok.kind = "jwt" /\ tok.mac = MAC(k, tok.sub, tok.iat, tok.exp, tok.iss)
C7_WrongSecretRejected ==
    /\ \A s \in 1..MaxUsers, ttl \in 1..MaxTTL, k \in Secrets :
         \A k2 \in Secrets \ {k}, t2 \in {now, now + (ttl + 1) * Hour} :
            ValidateJWT(MakeJWT(s, k, ttl * Hour, now), k2, t2)
                = Failed("SignatureMismatch")
    /\ (req.op \in ProtectedOps /\ Presented.err = "none"
        /\ \E k \in Secrets \ {secret} : SignedWith(Presented.token, k))
          => \/ resp = Unauthorized
             \/ req.op = "createChirp" /\ ~req.bodyOk /\ resp = Response(500, NoBody)
C7_Witness ==
    /\ req.op = "delChirp" /\ Presented.err = "none"
    /\ \E k \in Secrets \ {secret} : SignedWith(Presented.token, k)
    /\ req.chirpID \in DOMAIN chirps
    /\ chirps[req.chirpID].userID = Presented.token.sub
    /\ resp = Unauthorized

\* C8: a login with a known email and its password answers 200 with an access
\* token that validates at once under the server secret to that user (one hour
\* to live) and a refresh token stored for that user, not revoked, expiring 60
\* days after the login; a refresh with a stored, unrevoked token succeeds at
\* any time before its expiry
C8_LoginIssuesBoth ==
    /\ (req.op = "login" /\ resp.status = 200)
         => /\ UsersByEmail(req.email) = {resp.body.id}
            /\ CheckPasswordHash(users[resp.body.id].hashedPassword, req.password)
            /\ ValidateJWT(resp.body.token, secret, now) = Valid(resp.body.id)
            /\ resp.body.token.exp = now + Hour
            /\ resp.body.refreshToken \in DOMAIN refreshTokens
            /\ refreshTokens[resp.body.refreshToken]
                 = [userID |-> resp.body.id, expiresAt |-> NullTime(now + SixtyDays),
                    revokedAt |-> NullTimeNone]
    /\ (req.op = "login" /\ req.fails = {}
        /\ \E u \in UsersByEmail(req.email) :
              CheckPasswordHash(users[u].hashedPassword, req.password))
         => resp.status = 200
    /\ (req.op = "refresh" /\ Presented.err = "none" /\ req.fails = {}
        /\ Presented.token \in DOMAIN refreshTokens
        /\ ~refreshTokens[Presented.token].revokedAt.Valid
        /\ now < refreshTokens[Presented.token].expiresAt.Time)
         => resp.status = 200 /\ resp.body.kind = "token"
C8_Witness ==
    /\ req.op = "refresh" /\ resp.status = 200
    /\ now > refreshTokens[Presented.token].expiresAt.Time - SixtyDays
    /\ now < refreshTokens[Presented.token].expiresAt.Time

\* C9: the access token a successful refresh issues validates under the server
\* secret to the user stored with the refresh token, who is the user whose
\* login created it
C9_RefreshBindsOwner ==
    (req.op = "refresh" /\ resp.status = 200)
        => /\ Presented.token \in DOMAIN refreshTokens
           /\ ValidateJWT(resp.body.token, secret, now)
                = Valid(refreshTokens[Presented.token].userID)
           /\ refreshTokens[Presented.token].userID = issuedTo[Presented.token]
C9_Witness ==
    /\ req.op = "refresh" /\ resp.status = 200
    /\ \E t \in DOMAIN refreshTokens :
          /\ refreshTokens[t].userID # refreshTokens[Presented.token].userID
          /\ refreshTokens[t].userID < refreshTokens[Presented.token].userID

\* C10: after an update-user request that changed a user's password answered
\* 200, every refresh token stored for that user is revoked
C10_PasswordChangeRevokes ==
    [][(req'.op = "updateUser" /\ resp'.status = 200
        /\ users'[resp'.body.id].hashedPassword # users[resp'.body.id].hashedPassword)
       => \A t \in DOMAIN refreshTokens' :
             refreshTokens'[t].userID = resp'.body.id
                 => refreshTokens'[t].revokedAt.Valid]_vars

\* C11: a refresh request, answered 200 or not, leaves every refresh-token
\* record as it was (token, user, expiresAt, revokedAt) and adds none, so the
\* token that was just used is as usable after the request as before it
C11_RefreshLeavesStore ==
    [][req'.op = "refresh"
       => /\ refreshTokens' = refreshTokens
          /\ nextToken' = nextToken
          /\ issuedTo' = issuedTo
          /\ resp'.status = 200
               => /\ GetBearerToken(req'.header).token \in DOMAIN refreshTokens'
                  /\ ~refreshTokens'[GetBearerToken(req'.header).token].revokedAt.Valid
                  /\ refreshTokens'[GetBearerToken(req'.header).token].expiresAt.Time
                        >= now']_vars
C11_Witness ==
    /\ req.op = "refresh" /\ resp.status = 200
    /\ Cardinality(DOMAIN refreshTokens) = 2
    /\ \E t \in DOMAIN refreshTokens : refreshTokens[t].revokedAt.Valid
    /\ wallet # {}
\* C12: a revoke request with a well-formed bearer token answers 204 whether
\* the token is live, already revoked or not stored; after it the token, if
\* stored, is revoked (also when it was revoked before), and no other record
\* has changed
C12_RevokeIdempotent ==
    [][(req'.op = "revoke" /\ GetBearerToken(req'.header).err = "none"
        /\ req'.fails = {})
       => LET tok == GetBearerToken(req'.header).token IN
          /\ resp' = Response(204, NoBody)
          /\ DOMAIN refreshTokens' = DOMAIN refreshTokens
          /\ tok \in DOMAIN refreshTokens => refreshTokens'[tok].revokedAt.Valid
          /\ \A t \in DOMAIN refreshTokens \ {tok} :
                refreshTokens'[t] = refreshTokens[t]]_vars
C12_Witness ==
    /\ req.op = "revoke" /\ resp = Response(204, NoBody)
    /\ Presented.token \in revoked
    /\ Presented.token \in DOMAIN refreshTokens
    /\ refreshTokens[Presented.token].revokedAt.Valid
    /\ refreshTokens[Presented.token].revokedAt.Time < now
StoreLookups == {"GetUserByEmail", "GetUserByToken", "RevokeToken"}
C14_StoreFailureDistinct ==
    (req.op \in {"login", "refresh", "revoke"} /\ req.fails \cap StoreLookups # {})
        => resp # Unauthorized
\* C15: whenever the server has issued an access token (login) or verified
\* one (a protected request let through), the secret it used is not empty
C15_SecretNonEmpty ==
    (/\ req.op \in {"login", "createChirp"}
     /\ resp.status \in {200, 201})
        => secret # ""
\* C16: from "Bearer <token>" with a non-empty token the extraction returns
\* exactly the token; from an absent header, another scheme, a missing
\* separator or an empty token it returns MissingCredential, and the handler
\* that called it answers 401
MissingCredential == [err |-> "MissingCredential", token |-> EmptyString]
C16_BearerExtraction ==
    /\ \A h \in IllFormedHeaders : GetBearerToken(h) = MissingCredential
    /\ \A c \in RefreshCreds \cup AccessCreds :
          GetBearerToken(Bearer(c)) = [err |-> "none", token |-> c]
    /\ (req.op \in {"refresh", "revoke", "updateUser"}
        /\ Presented = MissingCredential)
          => resp = Unauthorized
C16_Witness ==
    /\ req.op = "refresh"
    /\ req.header.present /\ req.header.scheme = "Bearer" /\ ~req.header.sep
    /\ refreshTokens # <<>>
    /\ resp = Unauthorized
\* C17: however refresh and revoke requests for one refresh token interleave,
\* a refresh whose store lookup comes after the store update of a revoke that
\* answered 204 answers 401, and a refresh answers 200 only if, at the moment
\* of its own lookup, the stored record was unrevoked and not yet expired
C17_RefreshSeesRevoke ==
    \A i \in DOMAIN flights :
       (flights[i].op = "refresh" /\ flights[i].pc = "done")
          => /\ flights[i].after => flights[i].resp = Unauthorized
             /\ flights[i].resp.status = 200
                  => /\ ~flights[i].stored.revokedAt.Valid
                     /\ flights[i].stored.expiresAt.Valid
                     /\ flights[i].stored.expiresAt.Time > flights[i].lookedAt
                     /\ flights[i].row = flights[i].stored
C17_Witness ==
    \E i, j \in DOMAIN flights :
       /\ flights[i].op = "refresh" /\ flights[i].pc = "done"
       /\ flights[j].op = "revoke" /\ flights[j].pc = "done"
       /\ flights[j].header = flights[i].header
       /\ flights[j].resp = Response(204, NoBody)
       /\ ~flights[i].after
       /\ flights[i].resp.status = 200
       /\ refreshTokens[GetBearerToken(flights[i].header).token].revokedAt.Valid
       /\ refreshTokens[GetBearerToken(flights[i].header).token].revokedAt.Time
             < flights[i].resp.body.token.iat
\* C18: a login in which MakeJWT or the storing of the refresh token fails
\* after the password check has passed is answered with a failure that
\* carries neither an access token nor a refresh token
C18_LoginAllOrNothing ==
    (req.op = "login" /\ req.fails \cap {"MakeJWT", "CreateRefreshToken"} # {})
        => (resp.status # 200 /\ resp.body = NoBody)
\* C19: a chirp leaves the store through DELETE /api/chirps/{id} only when the
\* request bore an access token that validates to the chirp's author; with a
\* valid token of another user the answer is 403, with an invalid or missing
\* token 401, and in both cases the chirp stays as it was
ValidFor(tok, t) ==
    IF SignedWith(tok, secret) /\ t <= tok.exp THEN tok.sub ELSE NoUser
C19_OnlyAuthorDeletes ==
    [][\A c \in DOMAIN chirps :
         LET bearer == GetBearerToken(req'.header)
             userID == IF bearer.err = "none" THEN ValidFor(bearer.token, now)
                       ELSE NoUser
         IN
         /\ c \notin DOMAIN chirps'
              => (req'.op = "delChirp" /\ req'.chirpID = c
                  /\ userID = chirps[c].userID)
         /\ (req'.op = "delChirp" /\ req'.chirpID = c /\ req'.fails = {})
              => IF userID = NoUser
                 THEN resp' = Unauthorized /\ chirps' = chirps
                 ELSE IF userID # chirps[c].userID
                 THEN resp' = Response(403, NoBody) /\ chirps' = chirps
                 ELSE resp' = Response(204, NoBody) /\ c \notin DOMAIN chirps']_vars
C19_Witness ==
    /\ req.op = "delChirp" /\ resp = Response(403, NoBody)
    /\ req.chirpID \in DOMAIN chirps
    /\ Presented.token \in wallet
    /\ ValidFor(Presented.token, now) \in DOMAIN users
    /\ ValidFor(Presented.token, now) # chirps[req.chirpID].userID
C21_ResetGuardedByPlatform ==
    [][req'.op = "reset"
       => /\ platform # "dev"
               => /\ resp' = Response(403, NoBody)
                  /\ users' = users
                  /\ refreshTokens' = refreshTokens
                  /\ chirps' = chirps
                  /\ fileserverHits' = fileserverHits
          /\ users' # users => platform = "dev"]_vars
C21_Witness ==
    /\ req.op = "reset" /\ platform = "prod"
    /\ resp = Response(403, NoBody)
    /\ users # <<>> /\ refreshTokens # <<>> /\ chirps # <<>>
    /\ fileserverHits > 0
====
